---- MODULE Spec2Model ----
(***************************************************************************)
(* Tactical telemetry radar simulator: the receiver (receiver_ui.py) and   *)
(* the sender's fault injector (sender.py) as state machines.              *)
(*                                                                         *)
(* JSON values are pairs <<kind, payload>>: <<"num", n>> a number,         *)
(* <<"numstr", n>> the string "n", <<"str", s>> any other string,          *)
(* <<"null", _>> JSON null.  Python floats are integers of the model; a    *)
(* Python None held in a variable is the empty sequence and a value v is   *)
(* <<v>>.  Times are whole clock units (seconds).                          *)
(***************************************************************************)
EXTENDS Integers, Sequences, FiniteSets, TLC

VARIABLES
    pc,               \* position of the receiver's main loop
    clock,            \* the wall clock, time.time()
    now,              \* main's local "now" of the current iteration
    msgs,             \* the batch the ingest loop is iterating over
    sockq,            \* datagrams pending in the UDP socket
    sock_open,        \* the socket has not been closed
    mode,             \* "LIVE" or "REPLAY"
    tracks,           \* entity id -> TrackState
    msg_count_total, msg_count_window, msg_rate_timer,
    max_seq_seen, seq_drop_est,
    stale_count,
    rec_enabled, rec_file,      \* Recorder.enabled, Recorder.file is open
    capture,                    \* capture.jsonl on disk
    rp_enabled, rp_items, rp_index, rp_start,   \* Replayer
    \* history variables
    arrived,          \* the number of datagrams that have arrived
    log,              \* every message the ingest loop has taken up
    clear_mark,       \* Len(log) at the last tracks.clear()
    recorded,         \* what Recorder.write was given since the last start
    loaded_from,      \* recorded, as it was when the items were loaded
    replayed,         \* the messages poll has released since the last start
    \* is_stale on its own: a track, a time, and the answer once asked
    probe_track, probe_now, probe_stale,
    \* wrap360 on its own: a heading_deg as a float, and the heading stored
    w_deg, w_heading,
    \* the Replayer on its own: history of the methods called on it
    rp_calls,
    \* the sender, UdpSimSender
    s_pc,             \* "idle" between two send_all calls, or "send" inside one
    s_clock,          \* the sender's wall clock
    s_faults_enabled,
    s_seq,
    s_entities,       \* entity_id -> Entity
    s_faults,         \* entity_id -> fault state
    s_last_fault_check,
    s_i,              \* send_all's position in self.entities
    s_attempted, s_sent, s_dropped, s_jammed,   \* the total_packets_* counters
    s_wire,           \* the datagram of the last sendto, if any
    s_picked,         \* history: the entity the last fault trigger selected
    s_burst           \* history: entity_id -> the count of its last drop burst
                      \* and the send attempts made for it since

loopvars == <<pc, now, msgs>>
sockvars == <<sockq, sock_open, arrived>>
statvars == <<msg_count_total, msg_count_window, max_seq_seen, seq_drop_est>>
recvars == <<rec_enabled, rec_file>>
rpvars == <<rp_enabled, rp_items, rp_index, rp_start>>
histvars == <<log, clear_mark, recorded, loaded_from, replayed>>

rxvars == <<loopvars, clock, sockvars, mode, tracks, statvars, msg_rate_timer,
            stale_count, recvars, capture, rpvars, histvars>>

probevars == <<probe_track, probe_now, probe_stale, w_deg, w_heading, rp_calls>>

sndvars == <<s_pc, s_clock, s_faults_enabled, s_seq, s_entities, s_faults,
             s_last_fault_check, s_i, s_attempted, s_sent, s_dropped, s_jammed,
             s_wire, s_picked, s_burst>>

vars == <<rxvars, probevars, sndvars>>

\* stale_seconds = 2.0
stale_seconds == 2

(***************************************************************************)
(* Bounds of the model.                                                    *)
(***************************************************************************)
\* TrackState(history_len=25): the capacity of a track's history, scaled down
history_len == 2
\* poll_messages(max_per_frame=200) and poll(max_per_frame=200), scaled down
max_per_frame == 2
\* datagrams the socket buffer holds
MaxQueue == max_per_frame + 1
\* last reading of the clock
MaxClock == 3
\* last reading of the clock of a receiver left in LIVE mode: a track
\* updated at the first reading can be older than stale_seconds
MaxLiveClock == stale_seconds + 2
\* datagrams that arrive in one run
MaxArrivals == 2
\* datagrams that arrive in one run of a receiver left in LIVE mode
MaxLiveArrivals == history_len + 1
\* messages the ingest loop takes up in one run, live or replayed
MaxLog == 2 * MaxArrivals
\* the oldest track is_stale is asked about, beyond stale_seconds
MaxProbeAge == 6
\* last reading of the sender's clock
MaxSenderClock == 4
\* last reading of the clock of a receiver that replays a capture
MaxReplayClock == 4
\* send_all calls in one run of the sender
MaxSeq == 6
\* methods called in one run of a Replayer on its own
MaxCalls == 5
\* the largest finite float an _rx_time of the model takes
MaxFinite == 1000

(***************************************************************************)
(* JSON values and Python's conversions of them.                           *)
(***************************************************************************)
Num(n) == <<"num", n>>
NumStr(n) == <<"numstr", n>>
BadStr == <<"str", 0>>
Null == <<"null", 0>>
S(s) == <<"str", s>>
NullS == <<"null", "">>

\* float(v) and int(v) raise TypeError on None and ValueError on "abc"
Coercible(v) == v[1] \in {"num", "numstr"}
PyNumber(v) == v[2]
\* str(v): str(None) is "None"
PyStr(v) == IF v[1] = "null" THEN "None" ELSE v[2]

Has(m, k) == k \in DOMAIN m
\* dict(msg) with one key set
DictSet(m, k, v) == (k :> v) @@ m
\* msg.pop(k, None)
DictPop(m, k) == [j \in DOMAIN m \ {k} |-> m[j]]

\* wrap360 on whole degrees, where the float arithmetic is exact
wrap360(deg) == deg % 360

(***************************************************************************)
(* Python floats, scaled down: a float is a whole number of quanta, Unit   *)
(* quanta making 1.0, with a significand of Precision bits, so that the    *)
(* floats near 360.0 lie further apart than those near 0.0.  The result    *)
(* of an addition is rounded to the nearest float, ties to even.           *)
(***************************************************************************)
Unit == 8
Precision == 10

Abs(v) == IF v < 0 THEN 0 - v ELSE v

\* the distance between neighbouring floats at magnitude e
RECURSIVE SpacingFrom(_, _)
SpacingFrom(e, s) == IF e < s * 2 ^ Precision THEN s ELSE SpacingFrom(e, 2 * s)
Spacing(e) == SpacingFrom(e, 1)

\* e >= 0 rounded to the nearest float, ties to even
RoundFloat(e) ==
    LET s == Spacing(e)
        q == e \div s
        r == e % s
    IN  IF 2 * r < s THEN q * s
        ELSE IF 2 * r > s THEN (q + 1) * s
        ELSE IF q % 2 = 0 THEN q * s ELSE (q + 1) * s

IsFloat(v) == RoundFloat(Abs(v)) = Abs(v)

\* C's fmod(x, y) for y > 0: exact, with the sign of x
Fmod(x, y) == IF x >= 0 THEN x % y ELSE 0 - ((0 - x) % y)

\* x % y of two Python floats, y > 0: fmod, and y added to a negative
\* remainder
FloatMod(x, y) ==
    LET mod == Fmod(x, y) IN
    IF mod < 0 THEN RoundFloat(mod + y) ELSE mod

\* wrap360(deg): deg % 360.0
float_wrap360(deg) == FloatMod(deg, 360 * Unit)

(***************************************************************************)
(* The floats that are no numbers: json.loads reads Infinity and NaN, and  *)
(* float() hands them on.  They are the two values above MaxFinite, and    *)
(* -Infinity the one below -MaxFinite.                                     *)
(***************************************************************************)
Infinity == MaxFinite + 1
NaN == MaxFinite + 2
IsNaN(x) == x = NaN
IsInf(x) == Abs(x) = Infinity

\* a - b of two Python floats: inf - inf is nan
FloatSub(a, b) ==
    IF IsNaN(a) \/ IsNaN(b) THEN NaN
    ELSE IF IsInf(a) THEN (IF b = a THEN NaN ELSE a)
    ELSE IF IsInf(b) THEN 0 - b
    ELSE a - b

\* a <= b of two Python floats: False when either is nan
FloatLe(a, b) == ~IsNaN(a) /\ ~IsNaN(b) /\ a <= b

Some(v) == <<v>>
None == <<>>
IsNone(o) == o = <<>>
The(o) == o[1]

(***************************************************************************)
(* Text: a datagram's payload and a line of the capture file.  json.loads  *)
(* raises on "invalid", yields a dict on "object" and the list [1, 2] on    *)
(* "array".                                                                *)
(***************************************************************************)
Dumps(d) == [json |-> "object", obj |-> d]
Invalid == [json |-> "invalid", obj |-> <<>>]
Array == [json |-> "array", obj |-> <<>>]
Parses(text) == text.json # "invalid"
\* json.loads(text), for a text that parses: a value [isdict, f]
Loads(text) == [isdict |-> text.json = "object", f |-> text.obj]
PyDict(d) == [isdict |-> TRUE, f |-> d]
IsDict(v) == v.isdict

(***************************************************************************)
(* TrackState                                                              *)
(***************************************************************************)
TrackState == [entity_id |-> Null, entity_type |-> S(""), x |-> 0, y |-> 0,
               heading |-> 0, speed |-> 0, status |-> "NO_DATA", seq |-> 0,
               last_rx_time |-> 0, history |-> <<>>]

\* a deque that evicts nothing
DequeAppend_Unbounded(h, e, n) == Append(h, e)

\* deque(maxlen=n).append(e)
DequeAppend(h, e, n) == IF Len(h) < n THEN Append(h, e) ELSE Append(Tail(h), e)

\* One assignment self.fld = float(msg.get(key, self.fld)) (or int(...)) of
\* update_from_msg, on s = [raised, tr]: skipped once an earlier one raised.
Assign(s, msg, key, fld) ==
    IF s.raised \/ ~Has(msg, key) THEN s
    ELSE IF Coercible(msg[key])
         THEN [s EXCEPT !.tr[fld] = PyNumber(msg[key])]
         ELSE [s EXCEPT !.raised = TRUE]

\* self.heading = wrap360(float(msg.get("heading_deg", self.heading)))
AssignHeading(s, msg) ==
    IF s.raised THEN s
    ELSE IF ~Has(msg, "heading_deg") THEN [s EXCEPT !.tr.heading = wrap360(@)]
    ELSE IF Coercible(msg.heading_deg)
         THEN [s EXCEPT !.tr.heading = wrap360(PyNumber(msg.heading_deg))]
         ELSE [s EXCEPT !.raised = TRUE]

\* self.status = str(msg.get("status", self.status))
AssignStatus(s, msg) ==
    IF s.raised \/ ~Has(msg, "status") THEN s
    ELSE [s EXCEPT !.tr.status = PyStr(msg.status)]

\* The last two statements of update_from_msg
Stamp(s, rx_time) ==
    IF s.raised THEN s
    ELSE [s EXCEPT !.tr.last_rx_time = rx_time,
                   !.tr.history = DequeAppend(@, <<s.tr.x, s.tr.y>>, history_len)]

\* TrackState.update_from_msg: the track it leaves behind and whether a
\* conversion raised on the way (the assignments before it have been made).
update_from_msg(tr, msg, rx_time) ==
    LET s0 == [raised |-> FALSE,
               tr |-> [tr EXCEPT
                   !.entity_id = IF Has(msg, "entity_id") THEN msg.entity_id ELSE @,
                   !.entity_type = IF Has(msg, "entity_type") THEN msg.entity_type ELSE @]]
        s1 == Assign(s0, msg, "x", "x")
        s2 == Assign(s1, msg, "y", "y")
        s3 == AssignHeading(s2, msg)
        s4 == Assign(s3, msg, "speed", "speed")
        s5 == AssignStatus(s4, msg)
        s6 == Assign(s5, msg, "seq", "seq")
    IN  Stamp(s6, rx_time)

\* stale from the threshold on
is_stale_AtThreshold(track, now_ts) ==
    IF track.last_rx_time <= 0 THEN TRUE
    ELSE (now_ts - track.last_rx_time) >= stale_seconds

\* is_stale(track, now_ts)
is_stale(track, now_ts) ==
    IF track.last_rx_time <= 0 THEN TRUE
    ELSE (now_ts - track.last_rx_time) > stale_seconds

(***************************************************************************)
(* process_message(msg, rx_time) on the accounting and the track store.    *)
(* v is a decoded JSON value; st = [tracks, total, window, max_seq, drops].*)
(* The result adds raised (an exception left process_message) and outcome: *)
(* "ignored" (not an EntityState), "noid", "accepted" (update_from_msg     *)
(* returned) or "raised".                                                  *)
(***************************************************************************)
IsEntityState(m) == Has(m, "msg_type") /\ m.msg_type = S("EntityState")

\* the accounting with the whole gap counted as dropped
SeqAccount_AddsGap(st, m) ==
    IF ~Has(m, "seq") \/ ~Coercible(m.seq) THEN st
    ELSE LET seq == PyNumber(m.seq) IN
         IF IsNone(st.max_seq) THEN [st EXCEPT !.max_seq = Some(seq)]
         ELSE IF seq > The(st.max_seq)
              THEN LET gap == seq - The(st.max_seq) IN
                   [st EXCEPT !.max_seq = Some(seq),
                              !.drops = IF gap > 1 THEN @ + gap ELSE @]
              ELSE st

\* lines 252-262: the try block around the sequence accounting
SeqAccount(st, m) ==
    IF ~Has(m, "seq") \/ ~Coercible(m.seq) THEN st
    ELSE LET seq == PyNumber(m.seq) IN
         IF IsNone(st.max_seq) THEN [st EXCEPT !.max_seq = Some(seq)]
         ELSE IF seq > The(st.max_seq)
              THEN LET gap == seq - The(st.max_seq) IN
                   [st EXCEPT !.max_seq = Some(seq),
                              !.drops = IF gap > 1 THEN @ + (gap - 1) ELSE @]
              ELSE st

\* lines 267-268: the track of eid, made on its first message
TrackFor(store, eid) == IF eid \in DOMAIN store THEN store[eid] ELSE TrackState
\* a store that keeps the last track only
StoreTrack_Alone(store, eid, tr) == (eid :> tr)
\* tracks[eid] holds the track
StoreTrack(store, eid, tr) == (eid :> tr) @@ store

process_message(st, v, rx_time) ==
    LET base == [tracks |-> st.tracks, total |-> st.total, window |-> st.window,
                 max_seq |-> st.max_seq, drops |-> st.drops] IN
    IF ~IsDict(v)
    THEN base @@ [raised |-> TRUE, outcome |-> "raised"]
    ELSE LET m == v.f IN
    IF ~IsEntityState(m)
    THEN base @@ [raised |-> FALSE, outcome |-> "ignored"]
    ELSE LET counted == SeqAccount([base EXCEPT !.total = @ + 1, !.window = @ + 1], m) IN
    IF ~Has(m, "entity_id") \/ m.entity_id = Null
    THEN counted @@ [raised |-> FALSE, outcome |-> "noid"]
    ELSE LET eid == m.entity_id[2]
             u == update_from_msg(TrackFor(counted.tracks, eid), m, rx_time)
         IN  [counted EXCEPT !.tracks = StoreTrack(@, eid, u.tr)]
               @@ [raised |-> u.raised,
                   outcome |-> IF u.raised THEN "raised" ELSE "accepted"]

(***************************************************************************)
(* Recorder                                                                *)
(***************************************************************************)
\* a recorder that passes over the messages without entity_id
RecorderWrite_IdOnly(r, v, t) ==
    IF ~r.enabled \/ ~r.file THEN [raised |-> FALSE, wrote |-> FALSE, capture |-> r.capture]
    ELSE IF ~IsDict(v) THEN [raised |-> TRUE, wrote |-> FALSE, capture |-> r.capture]
    ELSE IF ~Has(v.f, "entity_id")
    THEN [raised |-> FALSE, wrote |-> FALSE, capture |-> r.capture]
    ELSE [raised |-> FALSE, wrote |-> TRUE,
          capture |-> [r.capture EXCEPT
              !.lines = Append(@, Dumps(DictSet(v.f, "_rx_time", Num(t))))]]

\* Recorder.write(msg) at clock reading t, on r = [enabled, file, capture]:
\* dict(msg) raises on the list [1, 2].
RecorderWrite(r, v, t) ==
    IF ~r.enabled \/ ~r.file THEN [raised |-> FALSE, wrote |-> FALSE, capture |-> r.capture]
    ELSE IF ~IsDict(v) THEN [raised |-> TRUE, wrote |-> FALSE, capture |-> r.capture]
    ELSE [raised |-> FALSE, wrote |-> TRUE,
          capture |-> [r.capture EXCEPT
              !.lines = Append(@, Dumps(DictSet(v.f, "_rx_time", Num(t))))]]

(***************************************************************************)
(* Replayer                                                                *)
(***************************************************************************)
\* The body of load's for loop: does the line yield a parsed pair
LineParses(line) ==
    /\ Parses(line)
    /\ IsDict(Loads(line))
    /\ Has(Loads(line).f, "_rx_time") => Coercible(Loads(line).f["_rx_time"])

\* a load that leaves _rx_time in the message
ParsedPair_Unstripped(line) ==
    LET m == Loads(line).f IN
    [rx_t |-> IF Has(m, "_rx_time") THEN PyNumber(m["_rx_time"]) ELSE 0,
     msg |-> m]

\* lines 121-124: the pair load keeps of a line
ParsedPair(line) ==
    LET m == Loads(line).f IN
    [rx_t |-> IF Has(m, "_rx_time") THEN PyNumber(m["_rx_time"]) ELSE 0,
     msg |-> DictPop(m, "_rx_time")]

RECURSIVE ParseLines(_)
ParseLines(lines) ==
    IF lines = <<>> THEN <<>>
    ELSE IF LineParses(Head(lines))
         THEN <<ParsedPair(Head(lines))>> \o ParseLines(Tail(lines))
         ELSE ParseLines(Tail(lines))

\* Replayer.load(path): raised (open failed), ok (its return value), items
ReplayerLoad(cap) ==
    IF ~cap.exists THEN [raised |-> TRUE, ok |-> FALSE, items |-> <<>>]
    ELSE LET parsed == ParseLines(cap.lines) IN
         IF parsed = <<>> THEN [raised |-> FALSE, ok |-> FALSE, items |-> <<>>]
         ELSE [raised |-> FALSE, ok |-> TRUE,
               items |-> [i \in 1..Len(parsed) |->
                            [t |-> FloatSub(parsed[i].rx_t, parsed[1].rx_t),
                             msg |-> parsed[i].msg]]]

\* a start that resumes where the cursor is
ReplayerStart_Resumes(p, t) ==
    IF p.items = <<>> THEN p
    ELSE [p EXCEPT !.enabled = TRUE, !.start = Some(t)]

\* Replayer.start() at clock reading t, on p = [enabled, items, index, start]
ReplayerStart(p, t) ==
    IF p.items = <<>> THEN p
    ELSE [p EXCEPT !.enabled = TRUE, !.index = 0, !.start = Some(t)]

\* Replayer.stop()
ReplayerStop(p) == [p EXCEPT !.enabled = FALSE]

\* a loop that does not wait for an item to be due
RECURSIVE PollLoop_Eager(_, _, _, _, _)
PollLoop_Eager(items, index, n, elapsed, limit) ==
    IF index < Len(items) /\ n < limit
    THEN PollLoop_Eager(items, index + 1, n + 1, elapsed, limit)
    ELSE index

\* The while loop of Replayer.poll: the index it stops at, having released n
RECURSIVE PollLoop(_, _, _, _, _)
PollLoop(items, index, n, elapsed, limit) ==
    IF index < Len(items) /\ n < limit /\ FloatLe(items[index + 1].t, elapsed)
    THEN PollLoop(items, index + 1, n + 1, elapsed, limit)
    ELSE index

\* a poll whose cursor runs past the last item
ReplayerPoll_Overruns(p, t, limit) ==
    IF ~p.enabled \/ p.items = <<>>
    THEN [out |-> <<>>, enabled |-> p.enabled, index |-> p.index]
    ELSE LET stop == PollLoop(p.items, p.index, 0, t - The(p.start), limit) IN
         [out |-> [i \in 1..(stop - p.index) |-> PyDict(p.items[p.index + i].msg)],
          enabled |-> IF stop >= Len(p.items) THEN FALSE ELSE p.enabled,
          index |-> IF stop >= Len(p.items) THEN stop + 1 ELSE stop]

\* a poll that stops the replay when nothing is due
ReplayerPoll_StopsWhenIdle(p, t, limit) ==
    IF ~p.enabled \/ p.items = <<>>
    THEN [out |-> <<>>, enabled |-> p.enabled, index |-> p.index]
    ELSE LET stop == PollLoop(p.items, p.index, 0, t - The(p.start), limit) IN
         [out |-> [i \in 1..(stop - p.index) |-> PyDict(p.items[p.index + i].msg)],
          enabled |-> IF stop >= Len(p.items) \/ stop = p.index THEN FALSE ELSE p.enabled,
          index |-> stop]

\* Replayer.poll(max_per_frame) at clock reading t, on p = [enabled, items,
\* index, start]
ReplayerPoll(p, t, limit) ==
    IF ~p.enabled \/ p.items = <<>>
    THEN [out |-> <<>>, enabled |-> p.enabled, index |-> p.index]
    ELSE LET stop == PollLoop(p.items, p.index, 0, t - The(p.start), limit) IN
         [out |-> [i \in 1..(stop - p.index) |-> PyDict(p.items[p.index + i].msg)],
          enabled |-> IF stop >= Len(p.items) THEN FALSE ELSE p.enabled,
          index |-> stop]

(***************************************************************************)
(* UdpReceiver.poll_messages(max_per_frame): the datagrams it consumes and *)
(* the messages it returns.                                                *)
(***************************************************************************)
Min(a, b) == IF a < b THEN a ELSE b

RECURSIVE Decoded(_)
Decoded(datagrams) ==
    IF datagrams = <<>> THEN <<>>
    ELSE IF Parses(Head(datagrams))
         THEN <<Loads(Head(datagrams))>> \o Decoded(Tail(datagrams))
         ELSE Decoded(Tail(datagrams))

\* a poll that drains the socket
poll_messages_Greedy(q, limit) == [msgs |-> Decoded(q), rest |-> <<>>]

\* the datagrams recvfrom hands over in range(max_per_frame), the messages
\* of those json.loads accepts, and the datagrams left in the socket
poll_messages(q, limit) ==
    LET n == Min(limit, Len(q)) IN
    [msgs |-> Decoded(SubSeq(q, 1, n)), rest |-> SubSeq(q, n + 1, Len(q))]

(***************************************************************************)
(* The inputs: datagrams a sender (or anyone) may put on the wire, and     *)
(* what capture.jsonl may hold when the receiver starts.                   *)
(***************************************************************************)
\* The message send_all builds for entity eid at tick n
EntityStateMsg(eid, n) ==
    [msg_type |-> S("EntityState"), entity_id |-> Num(eid), entity_type |-> S("SUB"),
     x |-> Num(10 * n), y |-> Num(10 * n + eid), heading_deg |-> Num(400 * n - 500),
     speed |-> Num(n), status |-> S("OK"), seq |-> Num(n),
     timestamp_utc |-> S("ts")]

\* an update that carries only a position, as a numeric string
Partial == [msg_type |-> S("EntityState"), entity_id |-> Num(1), x |-> NumStr(7)]
\* null for the text fields
NullText == [msg_type |-> S("EntityState"), entity_id |-> Num(1),
             entity_type |-> NullS, status |-> NullS, seq |-> Num(2)]
NullX == [msg_type |-> S("EntityState"), entity_id |-> Num(1), x |-> Null, seq |-> Num(2)]
BadSpeed == [msg_type |-> S("EntityState"), entity_id |-> Num(2), x |-> Num(5),
             speed |-> BadStr, seq |-> Num(4)]
\* a message that carries a key of the recorder's own
Stamped == [msg_type |-> S("EntityState"), entity_id |-> Num(1), seq |-> Num(1),
            _rx_time |-> Num(9)]
NoId == [msg_type |-> S("EntityState"), x |-> Num(5), seq |-> Num(4)]
Heartbeat == [msg_type |-> S("Heartbeat"), entity_id |-> Num(1), seq |-> Num(4)]

\* what arrives while the receiver records and replays
Datagrams ==
    {Dumps(m) : m \in {Stamped, EntityStateMsg(2, 2), NoId, BadSpeed}}
      \cup {Invalid}

\* what arrives at a receiver that stays in LIVE mode
LiveDatagrams ==
    {Dumps(m) : m \in {EntityStateMsg(1, 1), EntityStateMsg(1, 2), EntityStateMsg(1, 4),
                       EntityStateMsg(2, 2), Partial, NullText, NullX, BadSpeed, NoId,
                       Heartbeat}}
      \cup {Invalid, Array}

NoFile == [exists |-> FALSE, lines |-> <<>>]
File(lines) == [exists |-> TRUE, lines |-> lines]

\* no file; a file of which no line parses; a capture of an earlier run
\* with a damaged line in it
InitialCaptures ==
    {NoFile, File(<<Invalid>>),
     File(<<Dumps(DictSet(EntityStateMsg(2, 1), "_rx_time", Num(5))), Invalid,
            Dumps(DictSet(EntityStateMsg(2, 2), "_rx_time", Num(6)))>>)}

(***************************************************************************)
(* The sender, UdpSimSender: fault injection and send_all.  The motion of  *)
(* the entities (step) is not part of this model: the entities keep the    *)
(* state they were created with.                                           *)
(***************************************************************************)
\* _init_entities: entity ids count up from 1001
EntityOrder == <<1001, 1002>>
SenderEntities == {EntityOrder[i] : i \in 1..Len(EntityOrder)}

Entity(eid, etype, heading) ==
    [entity_id |-> eid, entity_type |-> etype, x |-> 100, y |-> 200,
     heading |-> heading, speed |-> 2, status |-> "OK"]

\* _default_fault_state
default_fault_state ==
    [jam_until |-> 0, drop_burst_remaining |-> 0, heading_noise_until |-> 0,
     heading_noise_deg |-> 0]

\* a test that overlooks the drop burst
fault_active_NoBurst(f, now_ts) ==
    \/ now_ts < f.jam_until
    \/ now_ts < f.heading_noise_until

\* _fault_active(f, now_ts)
fault_active(f, now_ts) ==
    \/ now_ts < f.jam_until
    \/ f.drop_burst_remaining > 0
    \/ now_ts < f.heading_noise_until

\* fault_check_interval=1.0
fault_check_interval == 1

\* What the random generator yields in one maybe_inject_random_fault:
\* rng.random() > fault_trigger_prob or not, the entity, the fault type, and
\* uniform(2.0, 6.0), randint(5, 20), uniform(3.0, 8.0), choice([5, 8, 12])
\* by their extremes.
NoTrigger == [trigger |-> FALSE, eid |-> EntityOrder[1], fault_type |-> "jam",
              dur |-> 0, count |-> 0, deg |-> 0]
Draws ==
    {NoTrigger}
    \cup {[trigger |-> TRUE, eid |-> e, fault_type |-> "jam", dur |-> d, count |-> 0,
           deg |-> 0] : e \in SenderEntities, d \in {2, 6}}
    \cup {[trigger |-> TRUE, eid |-> e, fault_type |-> "drop_burst", dur |-> 0,
           count |-> c, deg |-> 0] : e \in SenderEntities, c \in {5, 20}}
    \cup {[trigger |-> TRUE, eid |-> e, fault_type |-> "heading_noise", dur |-> d,
           count |-> 0, deg |-> g] : e \in SenderEntities, d \in {3, 8}, g \in {5, 8, 12}}

\* a trigger that does not look at the faults the entity already has
maybe_inject_random_fault_Unguarded(st, enabled, now_ts, draw) ==
    IF ~enabled \/ SenderEntities = {} THEN st @@ [picked |-> None]
    ELSE IF (now_ts - st.last_fault_check) < fault_check_interval
    THEN st @@ [picked |-> None]
    ELSE LET checked == [faults |-> st.faults, last_fault_check |-> now_ts,
                         picked |-> IF draw.trigger THEN Some(draw.eid) ELSE None]
         IN
         IF ~draw.trigger THEN checked
         ELSE CASE draw.fault_type = "jam" ->
                     [checked EXCEPT !.faults[draw.eid].jam_until = now_ts + draw.dur]
                [] draw.fault_type = "drop_burst" ->
                     [checked EXCEPT !.faults[draw.eid].drop_burst_remaining = @ + draw.count]
                [] draw.fault_type = "heading_noise" ->
                     [checked EXCEPT
                         !.faults[draw.eid].heading_noise_until = now_ts + draw.dur,
                         !.faults[draw.eid].heading_noise_deg = draw.deg]

\* maybe_inject_random_fault at clock reading now_ts, on
\* st = [faults, last_fault_check]; the result adds picked, the entity that
\* rng.choice(self.entities) selected if the call got that far.
maybe_inject_random_fault(st, enabled, now_ts, draw) ==
    IF ~enabled \/ SenderEntities = {} THEN st @@ [picked |-> None]
    ELSE IF (now_ts - st.last_fault_check) < fault_check_interval
    THEN st @@ [picked |-> None]
    ELSE LET f == st.faults[draw.eid]
             checked == [faults |-> st.faults, last_fault_check |-> now_ts,
                         picked |-> IF draw.trigger THEN Some(draw.eid) ELSE None]
         IN
         IF ~draw.trigger THEN checked
         ELSE IF fault_active(f, now_ts) THEN checked
         ELSE CASE draw.fault_type = "jam" ->
                     [checked EXCEPT !.faults[draw.eid].jam_until = now_ts + draw.dur]
                [] draw.fault_type = "drop_burst" ->
                     [checked EXCEPT !.faults[draw.eid].drop_burst_remaining = @ + draw.count]
                [] draw.fault_type = "heading_noise" ->
                     [checked EXCEPT
                         !.faults[draw.eid].heading_noise_until = now_ts + draw.dur,
                         !.faults[draw.eid].heading_noise_deg = draw.deg]

\* the burst looked at before the jam
apply_faults_to_msg_BurstFirst(f, msg, now_ts, noise) ==
    IF f.drop_burst_remaining > 0
    THEN [should_send |-> FALSE, out |-> msg,
          f |-> [f EXCEPT !.drop_burst_remaining = @ - 1], jammed |-> 0, dropped |-> 1]
    ELSE IF now_ts < f.jam_until
    THEN [should_send |-> FALSE, out |-> msg, f |-> f, jammed |-> 1, dropped |-> 0]
    ELSE IF now_ts < f.heading_noise_until
    THEN [should_send |-> TRUE,
          out |-> [msg EXCEPT
                     !.heading_deg = Num(wrap360(PyNumber(msg.heading_deg) + noise)),
                     !.status = S("NOISY")],
          f |-> f, jammed |-> 0, dropped |-> 0]
    ELSE [should_send |-> TRUE, out |-> msg, f |-> [f EXCEPT !.heading_noise_deg = 0],
          jammed |-> 0, dropped |-> 0]

\* a jam that is not counted
apply_faults_to_msg_JamUncounted(f, msg, now_ts, noise) ==
    IF now_ts < f.jam_until
    THEN [should_send |-> FALSE, out |-> msg, f |-> f, jammed |-> 0, dropped |-> 0]
    ELSE IF f.drop_burst_remaining > 0
    THEN [should_send |-> FALSE, out |-> msg,
          f |-> [f EXCEPT !.drop_burst_remaining = @ - 1], jammed |-> 0, dropped |-> 1]
    ELSE IF now_ts < f.heading_noise_until
    THEN [should_send |-> TRUE,
          out |-> [msg EXCEPT
                     !.heading_deg = Num(wrap360(PyNumber(msg.heading_deg) + noise)),
                     !.status = S("NOISY")],
          f |-> f, jammed |-> 0, dropped |-> 0]
    ELSE [should_send |-> TRUE, out |-> msg, f |-> [f EXCEPT !.heading_noise_deg = 0],
          jammed |-> 0, dropped |-> 0]

\* a burst that never runs out
apply_faults_to_msg_BurstStuck(f, msg, now_ts, noise) ==
    IF now_ts < f.jam_until
    THEN [should_send |-> FALSE, out |-> msg, f |-> f, jammed |-> 1, dropped |-> 0]
    ELSE IF f.drop_burst_remaining > 0
    THEN [should_send |-> FALSE, out |-> msg, f |-> f, jammed |-> 0, dropped |-> 1]
    ELSE IF now_ts < f.heading_noise_until
    THEN [should_send |-> TRUE,
          out |-> [msg EXCEPT
                     !.heading_deg = Num(wrap360(PyNumber(msg.heading_deg) + noise)),
                     !.status = S("NOISY")],
          f |-> f, jammed |-> 0, dropped |-> 0]
    ELSE [should_send |-> TRUE, out |-> msg, f |-> [f EXCEPT !.heading_noise_deg = 0],
          jammed |-> 0, dropped |-> 0]

\* the noisy heading sent as it comes out of the addition
apply_faults_to_msg_Unwrapped(f, msg, now_ts, noise) ==
    IF now_ts < f.jam_until
    THEN [should_send |-> FALSE, out |-> msg, f |-> f, jammed |-> 1, dropped |-> 0]
    ELSE IF f.drop_burst_remaining > 0
    THEN [should_send |-> FALSE, out |-> msg,
          f |-> [f EXCEPT !.drop_burst_remaining = @ - 1], jammed |-> 0, dropped |-> 1]
    ELSE IF now_ts < f.heading_noise_until
    THEN [should_send |-> TRUE,
          out |-> [msg EXCEPT
                     !.heading_deg = Num(PyNumber(msg.heading_deg) + noise),
                     !.status = S("NOISY")],
          f |-> f, jammed |-> 0, dropped |-> 0]
    ELSE [should_send |-> TRUE, out |-> msg, f |-> [f EXCEPT !.heading_noise_deg = 0],
          jammed |-> 0, dropped |-> 0]

\* apply_faults_to_msg(ent, msg) at clock reading now_ts, on the entity's
\* fault state f; noise is what rng.uniform(-deg, deg) yields.
apply_faults_to_msg(f, msg, now_ts, noise) ==
    IF now_ts < f.jam_until
    THEN [should_send |-> FALSE, out |-> msg, f |-> f, jammed |-> 1, dropped |-> 0]
    ELSE IF f.drop_burst_remaining > 0
    THEN [should_send |-> FALSE, out |-> msg,
          f |-> [f EXCEPT !.drop_burst_remaining = @ - 1], jammed |-> 0, dropped |-> 1]
    ELSE IF now_ts < f.heading_noise_until
    THEN [should_send |-> TRUE,
          out |-> [msg EXCEPT
                     !.heading_deg = Num(wrap360(PyNumber(msg.heading_deg) + noise)),
                     !.status = S("NOISY")],
          f |-> f, jammed |-> 0, dropped |-> 0]
    ELSE [should_send |-> TRUE, out |-> msg, f |-> [f EXCEPT !.heading_noise_deg = 0],
          jammed |-> 0, dropped |-> 0]

\* the message send_all builds for an entity
BuildMsg(ent, seq) ==
    [msg_type |-> S("EntityState"), entity_id |-> Num(ent.entity_id),
     entity_type |-> S(ent.entity_type), x |-> Num(ent.x), y |-> Num(ent.y),
     heading_deg |-> Num(ent.heading), speed |-> Num(ent.speed),
     status |-> S(ent.status), seq |-> Num(seq), timestamp_utc |-> S("ts")]

\* UdpSimSender.__init__ (the receiver's models leave the sender here)
SenderConstructed ==
    /\ s_pc = "idle"
    /\ s_clock = 1
    /\ s_seq = 0
    /\ s_entities = [e \in SenderEntities |->
                       Entity(e, IF e = EntityOrder[1] THEN "SUB" ELSE "UUV", 350)]
    /\ s_faults = [e \in SenderEntities |-> default_fault_state]
    /\ s_last_fault_check = 1
    /\ s_i = 0
    /\ s_attempted = 0
    /\ s_sent = 0
    /\ s_dropped = 0
    /\ s_jammed = 0
    /\ s_wire = None
    /\ s_picked = None
    /\ s_burst = [e \in SenderEntities |-> None]

NoSender == SenderConstructed /\ s_faults_enabled = TRUE

\* time passes at the sender
SenderElapse ==
    /\ s_clock' = s_clock + 1
    /\ UNCHANGED <<s_pc, s_faults_enabled, s_seq, s_entities, s_faults,
                   s_last_fault_check, s_i, s_attempted, s_sent, s_dropped,
                   s_jammed, s_wire, s_picked, s_burst>>
    /\ UNCHANGED <<rxvars, probevars>>

\* send_all up to its for loop: the tick's seq and the random fault
SendBegin(draw) ==
    /\ s_pc = "idle"
    /\ s_pc' = "send"
    /\ s_seq' = s_seq + 1
    /\ LET st == maybe_inject_random_fault(
                     [faults |-> s_faults, last_fault_check |-> s_last_fault_check],
                     s_faults_enabled, s_clock, draw) IN
       /\ s_faults' = st.faults
       /\ s_last_fault_check' = st.last_fault_check
       /\ s_picked' = st.picked
       /\ s_burst' = [e \in SenderEntities |->
                        IF st.faults[e].drop_burst_remaining > s_faults[e].drop_burst_remaining
                        THEN Some([count |-> st.faults[e].drop_burst_remaining, seen |-> 0])
                        ELSE s_burst[e]]
    /\ s_i' = 1
    /\ UNCHANGED <<s_clock, s_faults_enabled, s_entities, s_attempted, s_sent,
                   s_dropped, s_jammed, s_wire>>
    /\ UNCHANGED <<rxvars, probevars>>

\* one iteration of send_all's for loop; sign picks the noise among
\* -deg, 0 and +deg
SendOne(sign) ==
    /\ s_pc = "send"
    /\ LET ent == s_entities[EntityOrder[s_i]]
           msg == BuildMsg(ent, s_seq)
           f == s_faults[ent.entity_id]
           a == IF s_faults_enabled
                THEN apply_faults_to_msg(f, msg, s_clock, sign * f.heading_noise_deg)
                ELSE [should_send |-> TRUE, out |-> msg, f |-> f, jammed |-> 0,
                      dropped |-> 0]
       IN  /\ s_attempted' = s_attempted + 1
           /\ s_faults' = [s_faults EXCEPT ![ent.entity_id] = a.f]
           /\ s_jammed' = s_jammed + a.jammed
           /\ s_dropped' = s_dropped + a.dropped
           /\ IF a.should_send
              THEN /\ s_wire' = Some(Dumps(a.out))
                   /\ s_sent' = s_sent + 1
              ELSE UNCHANGED <<s_wire, s_sent>>
           /\ s_burst' = IF s_burst[ent.entity_id] = None THEN s_burst
                          ELSE LET b == The(s_burst[ent.entity_id]) IN
                               [s_burst EXCEPT ![ent.entity_id] =
                                   Some([b EXCEPT !.seen = Min(b.seen + 1, b.count + 1)])]
    /\ IF s_i < Len(EntityOrder)
       THEN /\ s_i' = s_i + 1
            /\ UNCHANGED s_pc
       ELSE /\ s_i' = 0
            /\ s_pc' = "idle"
    /\ UNCHANGED <<s_clock, s_faults_enabled, s_seq, s_entities, s_last_fault_check,
                   s_picked>>
    /\ UNCHANGED <<rxvars, probevars>>

(***************************************************************************)
(* The receiver's main().  The display toggles, the selection and the      *)
(* displayed msg_rate are rendering state and are left out.  One reading   *)
(* of the clock serves a whole iteration of the loop.                      *)
(***************************************************************************)
\* the receiver after the lines before its main loop; capture.jsonl is
\* whatever the disk holds
InitReceiver ==
    /\ pc = "events"
    /\ clock = 1
    /\ now = 1
    /\ msgs = <<>>
    /\ sockq = <<>>
    /\ sock_open = TRUE
    /\ arrived = 0
    /\ mode = "LIVE"
    /\ tracks = <<>>
    /\ msg_count_total = 0
    /\ msg_count_window = 0
    /\ msg_rate_timer = 1
    /\ max_seq_seen = None
    /\ seq_drop_est = 0
    /\ stale_count = 0
    /\ rec_enabled = FALSE
    /\ rec_file = FALSE
    /\ rp_enabled = FALSE
    /\ rp_items = <<>>
    /\ rp_index = 0
    /\ rp_start = None
    /\ log = <<>>
    /\ clear_mark = 0
    /\ recorded = None
    /\ loaded_from = None
    /\ replayed = <<>>

\* no wrap360 query is posed
NoWrap == w_deg = 0 /\ w_heading = None

\* no method has been called on a Replayer on its own
NoCalls == rp_calls = <<>>

\* no is_stale query is posed, no wrap360 query, no call on a Replayer
NoProbe ==
    /\ probe_track = TrackState
    /\ probe_now = 0
    /\ probe_stale = None
    /\ NoWrap
    /\ NoCalls

\* a finally block that leaves the capture file open
Finally_KeepsFile ==
    /\ rec_enabled' = FALSE
    /\ rec_file' = rec_file
    /\ sock_open' = FALSE

\* The finally block of main: recorder.stop() and rx.close()
Finally ==
    /\ rec_enabled' = FALSE
    /\ rec_file' = FALSE
    /\ sock_open' = FALSE

\* time passes between two iterations of the loop
Elapse ==
    /\ pc = "events"
    /\ clock' = clock + 1
    /\ UNCHANGED <<loopvars, sockvars, mode, tracks, statvars, msg_rate_timer,
                   stale_count, recvars, capture, rpvars, histvars>>
    /\ UNCHANGED <<probevars, sndvars>>

\* a datagram reaches the bound socket
Arrive(d) ==
    /\ pc = "events"
    /\ sock_open
    /\ Len(sockq) < MaxQueue
    /\ arrived' = arrived + 1
    /\ sockq' = Append(sockq, d)
    /\ UNCHANGED <<loopvars, clock, sock_open, mode, tracks, statvars, msg_rate_timer,
                   stale_count, recvars, capture, rpvars, histvars>>
    /\ UNCHANGED <<probevars, sndvars>>

\* K_r: recorder.stop() when recording, else recorder.start(capture_path);
\* open(path, "w") truncates the file, or raises when it cannot be opened.
KeyR ==
    /\ pc = "events"
    /\ \/ /\ rec_enabled
          /\ rec_enabled' = FALSE
          /\ rec_file' = FALSE
          /\ UNCHANGED <<pc, capture, sock_open, recorded>>
       \/ /\ ~rec_enabled
          /\ capture' = File(<<>>)
          /\ rec_file' = TRUE
          /\ rec_enabled' = TRUE
          /\ recorded' = Some(<<>>)
          /\ UNCHANGED <<pc, sock_open>>
       \/ /\ ~rec_enabled
          /\ pc' = "crashed"
          /\ Finally
          /\ UNCHANGED <<capture, recorded>>
    /\ UNCHANGED <<now, msgs, clock, sockq, arrived, mode, tracks, statvars,
                   msg_rate_timer, stale_count, rpvars, log, clear_mark,
                   loaded_from, replayed>>
    /\ UNCHANGED <<probevars, sndvars>>

\* K_p: back to LIVE from REPLAY, else load the capture and replay it
KeyP ==
    /\ pc = "events"
    /\ IF mode = "REPLAY"
       THEN /\ rp_enabled' = FALSE
            /\ mode' = "LIVE"
            /\ UNCHANGED <<pc, tracks, rp_items, rp_index, rp_start, recvars,
                           sock_open, clear_mark, loaded_from, replayed>>
       ELSE LET l == ReplayerLoad(capture) IN
            /\ rp_items' = l.items
            /\ rp_index' = 0
            /\ IF l.raised
               THEN /\ pc' = "crashed"
                    /\ Finally
                    /\ rp_enabled' = FALSE
                    /\ rp_start' = None
                    /\ loaded_from' = None
                    /\ UNCHANGED <<mode, tracks, clear_mark, replayed>>
               ELSE /\ IF l.ok
                       THEN /\ tracks' = <<>>
                            /\ rp_enabled' = TRUE
                            /\ rp_start' = Some(clock)
                            /\ mode' = "REPLAY"
                            /\ clear_mark' = Len(log)
                            /\ loaded_from' = recorded
                            /\ replayed' = <<>>
                       ELSE /\ rp_enabled' = FALSE
                            /\ rp_start' = None
                            /\ loaded_from' = None
                            /\ UNCHANGED <<mode, tracks, clear_mark, replayed>>
                    /\ UNCHANGED <<pc, recvars, sock_open>>
    /\ UNCHANGED <<now, msgs, clock, sockq, arrived, statvars, msg_rate_timer,
                   stale_count, capture, log, recorded>>
    /\ UNCHANGED <<probevars, sndvars>>

\* pygame.QUIT or K_ESCAPE: return, through the finally block
Quit ==
    /\ pc = "events"
    /\ pc' = "quit"
    /\ Finally
    /\ UNCHANGED <<now, msgs, clock, sockq, arrived, mode, tracks, statvars,
                   msg_rate_timer, stale_count, capture, rpvars, histvars>>
    /\ UNCHANGED <<probevars, sndvars>>

\* Ctrl+C: KeyboardInterrupt is raised wherever the loop is, and leaves main
\* through the finally block
Interrupt ==
    /\ pc \in {"events", "ingest"}
    /\ pc' = "interrupted"
    /\ Finally
    /\ UNCHANGED <<now, msgs, clock, sockq, arrived, mode, tracks, statvars,
                   msg_rate_timer, stale_count, capture, rpvars, histvars>>
    /\ UNCHANGED <<probevars, sndvars>>

\* lines 321-331: now = time.time(), then the batch of this iteration
BeginIngest ==
    /\ pc = "events"
    /\ pc' = "ingest"
    /\ now' = clock
    /\ IF mode = "LIVE"
       THEN LET p == poll_messages(sockq, max_per_frame) IN
            /\ Len(log) + Len(p.msgs) <= MaxLog
            /\ msgs' = p.msgs
            /\ sockq' = p.rest
            /\ UNCHANGED <<rp_enabled, rp_index, replayed>>
       ELSE LET p == ReplayerPoll([enabled |-> rp_enabled, items |-> rp_items,
                                   index |-> rp_index, start |-> rp_start],
                                  clock, max_per_frame) IN
            /\ Len(log) + Len(p.out) <= MaxLog
            /\ msgs' = p.out
            /\ rp_enabled' = p.enabled
            /\ rp_index' = p.index
            /\ replayed' = replayed \o p.out
            /\ UNCHANGED sockq
    /\ UNCHANGED <<clock, sock_open, arrived, mode, tracks, statvars, msg_rate_timer,
                   stale_count, recvars, capture, rp_items, rp_start, log,
                   clear_mark, recorded, loaded_from>>
    /\ UNCHANGED <<probevars, sndvars>>

\* an ingest loop that records in either mode
IngestOne_RecordsReplay ==
    /\ pc = "ingest"
    /\ msgs # <<>>
    /\ LET v == Head(msgs)
           w == RecorderWrite([enabled |-> rec_enabled, file |-> rec_file,
                               capture |-> capture], v, clock)
           st == [tracks |-> tracks, total |-> msg_count_total,
                  window |-> msg_count_window, max_seq |-> max_seq_seen,
                  drops |-> seq_drop_est]
           r == IF w.raised THEN st @@ [raised |-> TRUE, outcome |-> "raised"]
                ELSE process_message(st, v, now)
       IN  /\ capture' = w.capture
           /\ tracks' = r.tracks
           /\ msg_count_total' = r.total
           /\ msg_count_window' = r.window
           /\ max_seq_seen' = r.max_seq
           /\ seq_drop_est' = r.drops
           /\ log' = Append(log, [v |-> v, live |-> mode = "LIVE", wrote |-> w.wrote,
                                  outcome |-> r.outcome])
           /\ recorded' = IF w.wrote
                          THEN Some(Append(The(recorded), [body |-> v, stamp |-> clock]))
                          ELSE recorded
           /\ IF r.raised
              THEN /\ pc' = "crashed"
                   /\ Finally
                   /\ UNCHANGED msgs
              ELSE /\ msgs' = Tail(msgs)
                   /\ UNCHANGED <<pc, recvars, sock_open>>
    /\ UNCHANGED <<now, clock, sockq, arrived, mode, msg_rate_timer, stale_count,
                   rpvars, clear_mark, loaded_from, replayed>>
    /\ UNCHANGED <<probevars, sndvars>>

\* one iteration of the for loop over msgs: recorder.write(msg) in LIVE mode,
\* then process_message(msg, rx_time=now); an exception leaves main through
\* the finally block.
IngestOne ==
    /\ pc = "ingest"
    /\ msgs # <<>>
    /\ LET v == Head(msgs)
           w == IF mode = "LIVE"
                THEN RecorderWrite([enabled |-> rec_enabled, file |-> rec_file,
                                    capture |-> capture], v, clock)
                ELSE [raised |-> FALSE, wrote |-> FALSE, capture |-> capture]
           st == [tracks |-> tracks, total |-> msg_count_total,
                  window |-> msg_count_window, max_seq |-> max_seq_seen,
                  drops |-> seq_drop_est]
           r == IF w.raised THEN st @@ [raised |-> TRUE, outcome |-> "raised"]
                ELSE process_message(st, v, now)
       IN  /\ capture' = w.capture
           /\ tracks' = r.tracks
           /\ msg_count_total' = r.total
           /\ msg_count_window' = r.window
           /\ max_seq_seen' = r.max_seq
           /\ seq_drop_est' = r.drops
           /\ log' = Append(log, [v |-> v, live |-> mode = "LIVE", wrote |-> w.wrote,
                                  outcome |-> r.outcome])
           /\ recorded' = IF w.wrote
                          THEN Some(Append(The(recorded), [body |-> v, stamp |-> clock]))
                          ELSE recorded
           /\ IF r.raised
              THEN /\ pc' = "crashed"
                   /\ Finally
                   /\ UNCHANGED msgs
              ELSE /\ msgs' = Tail(msgs)
                   /\ UNCHANGED <<pc, recvars, sock_open>>
    /\ UNCHANGED <<now, clock, sockq, arrived, mode, msg_rate_timer, stale_count,
                   rpvars, clear_mark, loaded_from, replayed>>
    /\ UNCHANGED <<probevars, sndvars>>

\* lines 334-342: the rate window and the stale count, then the next iteration
EndIngest ==
    /\ pc = "ingest"
    /\ msgs = <<>>
    /\ pc' = "events"
    /\ LET dt_rate == clock - msg_rate_timer IN
       IF dt_rate >= 1
       THEN /\ msg_count_window' = 0
            /\ msg_rate_timer' = clock
       ELSE UNCHANGED <<msg_count_window, msg_rate_timer>>
    /\ stale_count' = Cardinality({eid \in DOMAIN tracks : is_stale(tracks[eid], now)})
    /\ UNCHANGED <<now, msgs, clock, sockvars, mode, tracks, msg_count_total,
                   max_seq_seen, seq_drop_est, recvars, capture, rpvars, histvars>>
    /\ UNCHANGED <<probevars, sndvars>>

Next ==
    \/ clock < MaxClock /\ Elapse
    \/ \E d \in Datagrams : arrived < MaxArrivals /\ Arrive(d)
    \/ KeyR
    \/ KeyP
    \/ Quit
    \/ BeginIngest
    \/ IngestOne
    \/ EndIngest

Init == InitReceiver /\ capture \in InitialCaptures /\ NoProbe /\ NoSender

Spec == Init /\ [][Next]_vars

\* The receiver left in LIVE mode, not recording
InitLive == InitReceiver /\ capture = NoFile /\ NoProbe /\ NoSender

NextLive ==
    \/ clock < MaxLiveClock /\ Elapse
    \/ \E d \in LiveDatagrams : arrived < MaxLiveArrivals /\ Arrive(d)
    \/ Quit
    \/ BeginIngest
    \/ IngestOne
    \/ EndIngest

SpecLive == InitLive /\ [][NextLive]_vars

(***************************************************************************)
(* The receiver with every way out of its loop: the window closed or ESC,  *)
(* an exception, Ctrl+C.                                                   *)
(***************************************************************************)
ShutdownDatagrams == {Dumps(Stamped), Dumps(BadSpeed)}

InitShutdown == InitReceiver /\ capture = NoFile /\ NoProbe /\ NoSender

NextShutdown ==
    \/ clock < MaxClock /\ Elapse
    \/ \E d \in ShutdownDatagrams : arrived < MaxArrivals /\ Arrive(d)
    \/ KeyR
    \/ KeyP
    \/ Quit
    \/ Interrupt
    \/ BeginIngest
    \/ IngestOne
    \/ EndIngest

SpecShutdown == InitShutdown /\ [][NextShutdown]_vars

(***************************************************************************)
(* is_stale on its own: any track, any time                                *)
(***************************************************************************)
ProbeTimes == -1..(stale_seconds + MaxProbeAge)

InitStale ==
    /\ InitReceiver /\ capture = NoFile /\ NoSender
    /\ probe_track \in {[TrackState EXCEPT !.last_rx_time = t] : t \in ProbeTimes}
    /\ probe_now \in ProbeTimes
    /\ probe_stale = None
    /\ NoWrap
    /\ NoCalls

AskStale ==
    /\ probe_stale = None
    /\ probe_stale' = Some(is_stale(probe_track, probe_now))
    /\ UNCHANGED <<probe_track, probe_now, w_deg, w_heading, rp_calls, rxvars, sndvars>>

NextStale == AskStale

SpecStale == InitStale /\ [][NextStale]_vars

(***************************************************************************)
(* The receiver replaying a capture it finds on disk, its loop running on  *)
(* and the clock advancing.                                                *)
(***************************************************************************)
Line(m, t) == Dumps(DictSet(m, "_rx_time", Num(t)))

\* three records of one instant and a later one; records out of time order
\* around a line that does not parse; a first record later than the second;
\* a record whose speed is no number
ReplayCaptures ==
    {File(<<Line(EntityStateMsg(1, 1), 5), Line(EntityStateMsg(2, 2), 5),
            Line(EntityStateMsg(1, 2), 5), Line(EntityStateMsg(1, 4), 6)>>),
     File(<<Line(EntityStateMsg(1, 1), 5), Invalid, Line(EntityStateMsg(2, 2), 7),
            Line(EntityStateMsg(1, 2), 6)>>),
     File(<<Line(EntityStateMsg(1, 2), 6), Line(EntityStateMsg(1, 1), 5)>>),
     File(<<Line(EntityStateMsg(1, 1), 5), Line(BadSpeed, 6),
            Line(EntityStateMsg(2, 2), 7)>>)}

\* the largest offset of an item of ReplayCaptures
MaxOffset ==
    LET offsets == UNION {{ReplayerLoad(c).items[i].t : i \in 1..Len(ReplayerLoad(c).items)} :
                             c \in ReplayCaptures}
    IN  CHOOSE m \in offsets : \A o \in offsets : o <= m

InitReplay ==
    /\ InitReceiver /\ capture \in ReplayCaptures
    /\ NoProbe /\ NoSender

\* K_p is pressed once, while the clock can still reach every offset
NextReplay ==
    \/ clock < MaxReplayClock /\ Elapse
    \/ mode = "LIVE" /\ clock + MaxOffset <= MaxReplayClock /\ KeyP
    \/ BeginIngest
    \/ IngestOne
    \/ EndIngest

\* main's while True: the loop goes round, and time.time() advances
\* between frames however often the loop polls (clock.tick(60) sleeps)
SpecReplay ==
    /\ InitReplay /\ [][NextReplay]_vars
    /\ SF_vars(clock < MaxReplayClock /\ Elapse)
    /\ WF_vars(BeginIngest) /\ WF_vars(IngestOne) /\ WF_vars(EndIngest)

(***************************************************************************)
(* The Replayer on its own: load, start, stop and poll called in any       *)
(* order on one Replayer, over what capture.jsonl may hold, the clock      *)
(* advancing between the calls.                                            *)
(***************************************************************************)
Rp == [enabled |-> rp_enabled, items |-> rp_items, index |-> rp_index, start |-> rp_start]

\* lines of a capture file: two records, a line that is no JSON, a record
\* whose _rx_time is Infinity
LoadLines ==
    {Line(EntityStateMsg(1, 1), 7), Line(EntityStateMsg(2, 2), 5), Invalid,
     Line(Stamped, Infinity)}

MaxLines == 3

LoadCaptures ==
    {NoFile} \cup {File(l) : l \in UNION {[1..n -> LoadLines] : n \in 0..MaxLines}}

InitReplayer ==
    /\ InitReceiver /\ capture \in LoadCaptures
    /\ NoProbe /\ NoSender

\* what a call on the Replayer leaves alone
CallFrame ==
    UNCHANGED <<loopvars, clock, sockvars, mode, tracks, statvars, msg_rate_timer,
                stale_count, recvars, capture, log, clear_mark, recorded,
                loaded_from, probe_track, probe_now, probe_stale, w_deg, w_heading,
                sndvars>>

\* replayer.load(capture_path); the caller catches what open() raises
CallLoad ==
    /\ Len(rp_calls) < MaxCalls
    /\ rp_calls' = Append(rp_calls, "load")
    /\ LET l == ReplayerLoad(capture) IN
       /\ rp_items' = l.items
       /\ rp_index' = 0
       /\ rp_enabled' = FALSE
       /\ rp_start' = None
    /\ UNCHANGED replayed
    /\ CallFrame

\* replayer.start()
CallStart ==
    /\ Len(rp_calls) < MaxCalls
    /\ rp_calls' = Append(rp_calls, "start")
    /\ LET q == ReplayerStart(Rp, clock) IN
       /\ rp_enabled' = q.enabled
       /\ rp_index' = q.index
       /\ rp_start' = q.start
       /\ rp_items' = q.items
    /\ replayed' = IF rp_items = <<>> THEN replayed ELSE <<>>
    /\ CallFrame

\* replayer.stop()
CallStop ==
    /\ Len(rp_calls) < MaxCalls
    /\ rp_calls' = Append(rp_calls, "stop")
    /\ LET q == ReplayerStop(Rp) IN
       /\ rp_enabled' = q.enabled
       /\ rp_index' = q.index
       /\ rp_start' = q.start
       /\ rp_items' = q.items
    /\ UNCHANGED replayed
    /\ CallFrame

\* replayer.poll(max_per_frame)
CallPoll ==
    /\ Len(rp_calls) < MaxCalls
    /\ rp_calls' = Append(rp_calls, "poll")
    /\ LET p == ReplayerPoll(Rp, clock, max_per_frame) IN
       /\ rp_enabled' = p.enabled
       /\ rp_index' = p.index
       /\ replayed' = replayed \o p.out
    /\ UNCHANGED <<rp_items, rp_start>>
    /\ CallFrame

NextReplayer ==
    \/ clock < MaxReplayClock /\ Elapse
    \/ CallLoad
    \/ CallStart
    \/ CallStop
    \/ CallPoll

SpecReplayer == InitReplayer /\ [][NextReplayer]_vars

(***************************************************************************)
(* wrap360 on its own, as update_from_msg applies it to the heading_deg of *)
(* a message: any float within two turns of zero                           *)
(***************************************************************************)
HeadingInputs == {v \in (0 - 2 * 360 * Unit)..(2 * 360 * Unit) : IsFloat(v)}

InitWrap ==
    /\ InitReceiver /\ capture = NoFile /\ NoSender
    /\ probe_track = TrackState /\ probe_now = 0 /\ probe_stale = None
    /\ w_deg \in HeadingInputs
    /\ w_heading = None
    /\ NoCalls

\* self.heading = wrap360(float(msg.get("heading_deg", self.heading)))
AskWrap ==
    /\ w_heading = None
    /\ w_heading' = Some(float_wrap360(w_deg))
    /\ UNCHANGED <<probe_track, probe_now, probe_stale, w_deg, rp_calls, rxvars, sndvars>>

NextWrap == AskWrap

SpecWrap == InitWrap /\ [][NextWrap]_vars

(***************************************************************************)
(* The sender on its own                                                   *)
(***************************************************************************)
InitSender ==
    /\ InitReceiver /\ capture = NoFile /\ NoProbe
    /\ SenderConstructed
    /\ s_faults_enabled \in BOOLEAN

NextSender ==
    \/ s_clock < MaxSenderClock /\ SenderElapse
    \/ \E draw \in Draws : s_seq < MaxSeq /\ SendBegin(draw)
    \/ \E sign \in {-1, 0, 1} : SendOne(sign)

SpecSender == InitSender /\ [][NextSender]_vars

(***************************************************************************)
(* apply_faults_to_msg on any fault state: the first entity's self.faults  *)
(* entry holds any combination of a jam window, a burst count and a noise  *)
(* window, and send_all runs with no new fault triggered.                  *)
(***************************************************************************)
FaultStates ==
    [jam_until : {0, 3}, drop_burst_remaining : 0..2, heading_noise_until : {0, 3},
     heading_noise_deg : {0, 12}]

InitFaults ==
    /\ InitReceiver /\ capture = NoFile /\ NoProbe
    /\ s_pc = "idle"
    /\ s_clock = 1
    /\ s_faults_enabled = TRUE
    /\ s_seq = 0
    /\ s_entities = [e \in SenderEntities |->
                       Entity(e, IF e = EntityOrder[1] THEN "SUB" ELSE "UUV", 350)]
    /\ s_faults \in {[e \in SenderEntities |->
                          IF e = EntityOrder[1] THEN f ELSE default_fault_state] :
                      f \in FaultStates}
    /\ s_last_fault_check = 1
    /\ s_i = 0
    /\ s_attempted = 0
    /\ s_sent = 0
    /\ s_dropped = 0
    /\ s_jammed = 0
    /\ s_wire = None
    /\ s_picked = None
    /\ s_burst = [e \in SenderEntities |-> None]

NextFaults ==
    \/ s_clock < MaxSenderClock /\ SenderElapse
    \/ s_seq < MaxSeq /\ SendBegin(NoTrigger)
    \/ \E sign \in {-1, 0, 1} : SendOne(sign)

SpecFaults == InitFaults /\ [][NextFaults]_vars

(***************************************************************************)
(* Properties                                                              *)
(***************************************************************************)
RECURSIVE SelectLog(_, _)
\* the entries of a log whose outcome is in the set
SelectLog(l, outcomes) ==
    IF l = <<>> THEN <<>>
    ELSE IF Head(l).outcome \in outcomes
         THEN <<Head(l)>> \o SelectLog(Tail(l), outcomes)
         ELSE SelectLog(Tail(l), outcomes)

Accepted == SelectLog(log, {"accepted"})

\* the seq values the accepted messages carried, in order of acceptance
RECURSIVE SeqsOf(_)
SeqsOf(l) ==
    IF l = <<>> THEN <<>>
    ELSE IF Has(Head(l).v.f, "seq")
         THEN <<PyNumber(Head(l).v.f.seq)>> \o SeqsOf(Tail(l))
         ELSE SeqsOf(Tail(l))

MaxOf(s, n) == CHOOSE m \in {s[i] : i \in 1..n} : \A i \in 1..n : s[i] <= m

\* the sum of (gap - 1) over the elements that exceed all before them by gap > 1
RECURSIVE GapSum(_, _)
GapSum(s, n) ==
    IF n <= 1 THEN 0
    ELSE GapSum(s, n - 1)
           + (IF s[n] - MaxOf(s, n - 1) > 1 THEN s[n] - MaxOf(s, n - 1) - 1 ELSE 0)

\* every EntityState message taken up so far was accepted
OnlyAccepted == \A i \in 1..Len(log) : log[i].outcome \in {"accepted", "ignored"}

C1_Accounting ==
    OnlyAccepted =>
        LET s == SeqsOf(Accepted) IN
        /\ max_seq_seen = (IF s = <<>> THEN None ELSE Some(MaxOf(s, Len(s))))
        /\ seq_drop_est = GapSum(s, Len(s))

C1_NoDecrease ==
    max_seq_seen # None =>
        /\ max_seq_seen' # None
        /\ The(max_seq_seen') >= The(max_seq_seen)
        /\ The(max_seq_seen') = The(max_seq_seen) => seq_drop_est' = seq_drop_est

\* C1: over a stream of accepted EntityState messages max_seq_seen is the
\* largest seq accepted so far and seq_drop_est the sum of (gap - 1) over the
\* messages that raised max_seq_seen by a gap > 1; max_seq_seen never
\* decreases, and a message that does not raise it leaves both alone.
C1_SeqAccounting == []C1_Accounting /\ [][C1_NoDecrease]_vars

\* seq 1, then 4 (a gap of 3, two drops), then 2 (ignored)
C1_Witness ==
    /\ OnlyAccepted
    /\ SeqsOf(Accepted) = <<1, 4, 2>>
    /\ max_seq_seen = Some(4)
    /\ seq_drop_est = 2

\* the positions of the accepted updates to track eid, in arrival order: an
\* update that carries no x (or y) is at the x (or y) of the one before it
RECURSIVE Trail(_, _, _, _)
Trail(l, eid, x, y) ==
    IF l = <<>> THEN <<>>
    ELSE LET m == Head(l).v.f IN
         IF Head(l).outcome = "accepted" /\ m.entity_id = Num(eid)
         THEN LET nx == IF Has(m, "x") THEN PyNumber(m.x) ELSE x
                  ny == IF Has(m, "y") THEN PyNumber(m.y) ELSE y
              IN  <<<<nx, ny>>>> \o Trail(Tail(l), eid, nx, ny)
         ELSE Trail(Tail(l), eid, x, y)

SinceClear == SubSeq(log, clear_mark + 1, Len(log))
TrailOf(eid) == Trail(SinceClear, eid, 0, 0)
LastN(s, n) == SubSeq(s, Len(s) - Min(Len(s), n) + 1, Len(s))

\* C2: after N updates to one track its history holds min(N, capacity)
\* positions, the last ones in arrival order, the oldest evicted first; it is
\* never longer than the capacity.
C2_BoundedHistory ==
    \A eid \in DOMAIN tracks :
        LET t == TrailOf(eid) IN
        /\ Len(tracks[eid].history) = Min(Len(t), history_len)
        /\ tracks[eid].history = LastN(t, history_len)
        /\ Len(tracks[eid].history) <= history_len

\* a track has been updated more often than its history holds, at different
\* positions, and the oldest position is gone
C2_Witness ==
    \E eid \in DOMAIN tracks :
        LET t == TrailOf(eid) IN
        /\ Len(t) > history_len
        /\ t[1] # t[2]
        /\ tracks[eid].history[1] = t[Len(t) - history_len + 1]
        /\ tracks[eid].history[1] # t[1]

\* the message the ingest loop takes up in this step
Taking == pc = "ingest" /\ msgs # <<>> /\ log' # log
ForTrack(v) ==
    IsDict(v) /\ IsEntityState(v.f) /\ Has(v.f, "entity_id") /\ v.f.entity_id # Null
NumericKeys == {"x", "y", "heading_deg", "speed", "seq"}
\* a numeric field holds something that is neither a number nor null
Uncoercible(m) == \E k \in NumericKeys : Has(m, k) /\ m[k][1] = "str"

\* C4 (as claimed): an EntityState message with a required numeric field that
\* cannot be coerced is rejected whole: the track store is as it was and the
\* loop goes on with the next message.
C4_RejectedWhole ==
    [][(Taking /\ ForTrack(Head(msgs)) /\ Uncoercible(Head(msgs).f))
          => (tracks' = tracks /\ pc' = "ingest")]_vars

Carries(m, k) == Has(m, k) /\ m[k][1] # "null"
Merged(m, k, old, new) == IF Carries(m, k) THEN new ELSE old

\* C10 (as claimed): the update is a field-level merge: a field the message
\* omits or carries as null keeps the track's value, a value carried replaces
\* it (messages with a numeric field that is neither a number nor null are
\* left to C4).
C10_Step ==
    (Taking /\ ForTrack(Head(msgs))
            /\ \A k \in NumericKeys : Carries(Head(msgs).f, k) => Coercible(Head(msgs).f[k]))
    => LET m == Head(msgs).f
           eid == m.entity_id[2]
           old == IF eid \in DOMAIN tracks THEN tracks[eid] ELSE TrackState
       IN  /\ pc' = "ingest"
           /\ eid \in DOMAIN tracks'
           /\ LET new == tracks'[eid] IN
              /\ new.entity_type = Merged(m, "entity_type", old.entity_type, m.entity_type)
              /\ new.x = Merged(m, "x", old.x, PyNumber(m.x))
              /\ new.y = Merged(m, "y", old.y, PyNumber(m.y))
              /\ new.heading = Merged(m, "heading_deg", old.heading,
                                      PyNumber(m.heading_deg) % 360)
              /\ new.speed = Merged(m, "speed", old.speed, PyNumber(m.speed))
              /\ new.status = Merged(m, "status", old.status, m.status[2])
              /\ new.seq = Merged(m, "seq", old.seq, PyNumber(m.seq))

C10_FieldMerge == [][C10_Step]_vars

\* the record Recorder.write makes of a message taken up at clock reading t
CaptureLine(body, t) == Dumps(DictSet(body.f, "_rx_time", Num(t)))

\* C3: the capture of a recording, loaded and replayed, releases the recorded
\* message bodies in the order recorded, field for field but for _rx_time,
\* and the offsets of consecutive replay items differ by the gaps between
\* the times of receipt.
C3_RoundTrip ==
    (mode = "REPLAY" /\ loaded_from # None) =>
        LET rec == The(loaded_from) IN
        /\ Len(rp_items) = Len(rec)
        /\ \A i \in 1..Len(rec) : rp_items[i].msg = DictPop(rec[i].body.f, "_rx_time")
        /\ \A i \in 1..(Len(rec) - 1) :
               rp_items[i + 1].t - rp_items[i].t = rec[i + 1].stamp - rec[i].stamp
        /\ replayed = [i \in 1..rp_index |-> PyDict(DictPop(rec[i].body.f, "_rx_time"))]

\* two different messages recorded at different times, one of them with a
\* _rx_time of its own, have both been replayed
C3_Witness ==
    /\ mode = "REPLAY"
    /\ loaded_from # None
    /\ Len(The(loaded_from)) = 2
    /\ The(loaded_from)[1].body # The(loaded_from)[2].body
    /\ The(loaded_from)[1].stamp < The(loaded_from)[2].stamp
    /\ \E i \in 1..2 : Has(The(loaded_from)[i].body.f, "_rx_time")
    /\ Len(replayed) = 2
    /\ ~rp_enabled

\* C5 (as claimed): when Replayer.load fails (no file, an empty file, no line
\* that parses) the receiver stays in its loop, in the mode and with the
\* track store it had.
C5_LoadFailure ==
    [][(KeyP /\ mode = "LIVE" /\ ~ReplayerLoad(capture).ok)
          => (pc' = "events" /\ mode' = mode /\ tracks' = tracks)]_vars

\* the step is maybe_inject_random_fault, and its trigger selected eid
Selects(eid) == s_pc = "idle" /\ s_pc' = "send" /\ s_picked' = Some(eid)

\* C6: a fault trigger that selects an entity with a fault condition active
\* (jam window, drop_burst_remaining > 0, heading-noise window) changes
\* nothing of that entity's fault state.
\* the conditions the claim lists, at clock reading t
ConditionActive(f, t) ==
    \/ t < f.jam_until
    \/ f.drop_burst_remaining > 0
    \/ t < f.heading_noise_until

C6_Step ==
    \A eid \in SenderEntities :
        (Selects(eid) /\ ConditionActive(s_faults[eid], s_clock))
            => s_faults'[eid] = s_faults[eid]

C6_MutualExclusion == [][C6_Step]_vars

\* a trigger has just selected an entity in the middle of a drop burst, and
\* the burst is all the entity has
C6_Witness ==
    /\ s_pc = "send"
    /\ s_i = 1
    /\ s_picked # None
    /\ LET f == s_faults[The(s_picked)] IN
       /\ f.drop_burst_remaining \in 1..4
       /\ f.jam_until = 0
       /\ f.heading_noise_until = 0

C7_Step ==
    /\ (Taking /\ mode = "LIVE" /\ rec_enabled /\ IsDict(Head(msgs)))
          => capture'.lines = Append(capture.lines, CaptureLine(Head(msgs), clock))
    /\ (Taking /\ ~(mode = "LIVE" /\ rec_enabled)) => capture' = capture
    /\ (~Taking /\ capture' # capture)
          => (~rec_enabled /\ rec_enabled' /\ capture' = File(<<>>))

C7_Records ==
    recorded # None =>
        capture.lines = [i \in 1..Len(The(recorded)) |->
                            CaptureLine(The(recorded)[i].body, The(recorded)[i].stamp)]

C8_IsStale ==
    probe_stale # None =>
        (The(probe_stale) <=> (\/ probe_track.last_rx_time <= 0
                               \/ probe_now - probe_track.last_rx_time > stale_seconds))

\* a track whose age is the threshold has been found not stale
C8_Witness ==
    /\ probe_track.last_rx_time > 0
    /\ probe_now - probe_track.last_rx_time = stale_seconds
    /\ probe_stale = Some(FALSE)

\* the entity ids of the messages accepted since the last clear
AcceptedIds ==
    {SinceClear[i].v.f.entity_id[2] :
        i \in {j \in 1..Len(SinceClear) : SinceClear[j].outcome = "accepted"}}

C9_Store == pc # "crashed" => DOMAIN tracks = AcceptedIds

C9_Step ==
    /\ (\E eid \in DOMAIN tracks : eid \notin DOMAIN tracks')
          => (KeyP /\ mode = "LIVE" /\ mode' = "REPLAY" /\ tracks' = <<>>)
    /\ (Taking /\ log'[Len(log')].outcome = "accepted")
          => LET eid == Head(msgs).f.entity_id[2] IN
             eid \notin DOMAIN tracks
                 => /\ Len(tracks'[eid].history) = 1
                    /\ ~is_stale(tracks'[eid], now)

\* C9: the track store holds one track for every entity_id accepted since the
\* last clear and no other; a track is made by the first message accepted for
\* its id, with one history entry and not stale at that tick; no track is
\* removed but by the clear of a successful switch into replay.  (Once an
\* exception has ended main, its track store is gone with it.)
C9_TrackStore == []C9_Store /\ [][C9_Step]_vars

\* a track seen live is gone after the switch into replay, and the store
\* holds the tracks of the replayed messages
C9_Witness ==
    /\ pc # "crashed"
    /\ clear_mark > 0
    /\ \E i \in 1..clear_mark :
          log[i].outcome = "accepted" /\ log[i].v.f.entity_id[2] \notin DOMAIN tracks
    /\ DOMAIN tracks # {}

\* the step is a Replayer.poll of main's ingest
PollStep == pc = "events" /\ pc' = "ingest" /\ mode = "REPLAY"

C11_Step ==
    PollStep =>
        LET k == rp_index' - rp_index IN
        /\ k >= 0
        /\ k <= max_per_frame
        /\ msgs' = [i \in 1..k |-> PyDict(rp_items[rp_index + i].msg)]
        /\ rp_items' = rp_items
        /\ k > 0 => /\ rp_start # None
                    /\ \A i \in 1..k : rp_items[rp_index + i].t <= clock - The(rp_start)

C11_Released ==
    mode = "REPLAY" => replayed = [i \in 1..rp_index |-> PyDict(rp_items[i].msg)]

\* C11: each poll releases the items from the cursor on, in file order, each
\* with offset <= elapsed and at most max_per_frame of them, and advances the
\* cursor by the number released; what the polls since start() have released
\* is the items before the cursor, each once and none skipped.
C11_ContiguousRelease == []C11_Released /\ [][C11_Step]_vars

\* a poll has released max_per_frame items and left a third of the same
\* offset behind
C11_Witness ==
    /\ mode = "REPLAY"
    /\ pc = "ingest"
    /\ Len(msgs) = max_per_frame
    /\ rp_index = max_per_frame
    /\ rp_index < Len(rp_items)
    /\ rp_items[rp_index + 1].t = rp_items[rp_index].t

\* the step is one send attempt of send_all, for entity SendingFor
SendStep == s_pc = "send" /\ s_attempted' = s_attempted + 1
SendingFor == EntityOrder[s_i]
\* the step puts a datagram on the wire
Sent == s_sent' = s_sent + 1 /\ s_wire' # None
Suppressed == s_sent' = s_sent /\ s_wire' = s_wire
TrueMsg == BuildMsg(s_entities[SendingFor], s_seq)

C12_Step ==
    (SendStep /\ s_faults_enabled) =>
        LET f == s_faults[SendingFor]
            g == s_faults'[SendingFor]
        IN
        IF s_clock < f.jam_until
        THEN /\ Suppressed
             /\ s_jammed' = s_jammed + 1 /\ s_dropped' = s_dropped
             /\ g = f
        ELSE IF f.drop_burst_remaining > 0
        THEN /\ Suppressed
             /\ s_dropped' = s_dropped + 1 /\ s_jammed' = s_jammed
             /\ g = [f EXCEPT !.drop_burst_remaining = @ - 1]
        ELSE /\ Sent
             /\ s_jammed' = s_jammed /\ s_dropped' = s_dropped
             /\ g.drop_burst_remaining = 0
             /\ LET out == The(s_wire').obj IN
                IF s_clock < f.heading_noise_until
                THEN \E n \in (0 - f.heading_noise_deg)..f.heading_noise_deg :
                        out.heading_deg = Num((PyNumber(TrueMsg.heading_deg) + n) % 360)
                ELSE out = TrueMsg

\* C12: apply_faults_to_msg looks at the jam window first (suppressed, the
\* jammed counter alone goes up, the burst count stays), then at
\* drop_burst_remaining (suppressed, count down by one, the dropped counter
\* goes up), and else sends the message, perturbed while the noise window is
\* active and as built otherwise.
C12_Order == [][C12_Step]_vars

\* an attempt was jammed while a burst and a noise window were pending too
C12_Witness ==
    /\ s_attempted = 1
    /\ s_jammed = 1
    /\ s_dropped = 0
    /\ s_sent = 0
    /\ s_clock < s_faults[EntityOrder[1]].jam_until
    /\ s_faults[EntityOrder[1]].drop_burst_remaining = 2
    /\ s_clock < s_faults[EntityOrder[1]].heading_noise_until

\* the step sends a message of an entity whose noise window is active
NoisySend ==
    /\ SendStep /\ s_faults_enabled /\ Sent
    /\ s_clock < s_faults[SendingFor].heading_noise_until

\* C13 (as claimed): the outgoing copy differs from the true message in
\* heading_deg alone.
C13_HeadingAlone ==
    [][NoisySend =>
         \A k \in DOMAIN TrueMsg \ {"heading_deg"} : The(s_wire').obj[k] = TrueMsg[k]]_vars

C13_Step ==
    NoisySend =>
        LET out == The(s_wire').obj
            deg == s_faults[SendingFor].heading_noise_deg
        IN
        /\ DOMAIN out = DOMAIN TrueMsg
        /\ \A k \in DOMAIN TrueMsg \ {"heading_deg", "status"} : out[k] = TrueMsg[k]
        /\ out.status = S("NOISY")
        /\ \E n \in (0 - deg)..deg :
              out.heading_deg = Num((PyNumber(TrueMsg.heading_deg) + n) % 360)
        /\ s_entities' = s_entities

\* C13 (amended): while the noise window is active the outgoing copy differs
\* from the true message in heading_deg, which is wrap360 of the true heading
\* plus a noise within +/- heading_noise_deg, and in status, which is
\* "NOISY"; every other field is the true one and the entity is not modified.
C13_HeadingAndStatus == [][C13_Step]_vars

\* a noisy heading that went over 360 has been sent wrapped
C13_Witness ==
    /\ s_wire # None
    /\ The(s_wire).obj.status = S("NOISY")
    /\ The(s_wire).obj.entity_id = Num(EntityOrder[1])
    /\ The(s_wire).obj.heading_deg = Num(2)
    /\ s_entities[EntityOrder[1]].heading = 350

\* main has been left
Exited == pc \in {"quit", "crashed", "interrupted"}

\* C14: however main's loop is left (QUIT or ESC, an exception raised in
\* the loop, a keyboard interrupt), the recorder is stopped, holding no file,
\* and the socket is closed.
C14_Released == Exited => (~rec_enabled /\ ~rec_file /\ ~sock_open)

\* an exception ended the loop on a message the recorder had just written
C14_Witness ==
    /\ pc = "crashed"
    /\ log # <<>>
    /\ log[Len(log)].wrote
    /\ log[Len(log)].outcome = "raised"
    /\ ~rec_enabled /\ ~rec_file /\ ~sock_open

\* C15 (as claimed): when recorder.start cannot open the capture file the
\* recorder stays disabled, holding no file, and the loop keeps running.
C15_StartFailure ==
    [][(KeyR /\ ~rec_enabled /\ ~rec_enabled')
          => (pc' = "events" /\ ~rec_file' /\ sock_open')]_vars

\* the sequence and rate accounting is as it was
SameAccounting ==
    /\ msg_count_total' = msg_count_total
    /\ msg_count_window' = msg_count_window
    /\ max_seq_seen' = max_seq_seen
    /\ seq_drop_est' = seq_drop_est

\* an EntityState message without entity_id (or with null for it)
WithoutId(v) ==
    /\ IsDict(v) /\ IsEntityState(v.f)
    /\ (~Has(v.f, "entity_id") \/ v.f.entity_id = Null)

\* C16 (as claimed): an EntityState message with no entity_id is dropped
\* whole: no track is made or changed, and the message counters,
\* max_seq_seen and seq_drop_est stay as they were.
C16_DroppedWhole ==
    [][(Taking /\ WithoutId(Head(msgs)))
          => (tracks' = tracks /\ SameAccounting /\ pc' = "ingest")]_vars

\* a decoded message whose msg_type is not "EntityState"
OtherType(v) == ~(IsDict(v) /\ IsEntityState(v.f))

\* C17 (as claimed): a decoded message that is no EntityState message is
\* ignored: the track store and the accounting are unchanged, and no error
\* is raised.
C17_Ignored ==
    [][(Taking /\ OtherType(Head(msgs)))
          => (tracks' = tracks /\ SameAccounting /\ pc' = "ingest")]_vars

\* C18 (as claimed): whatever heading_deg is put in, negative or 360 and
\* above, the heading stored is at least 0 and below 360.
C18_InRange ==
    w_heading # None => (0 <= The(w_heading) /\ The(w_heading) < 360 * Unit)

C19_Step ==
    (PollStep /\ rp_enabled) => (rp_enabled' <=> rp_index' < Len(rp_items))

\* C19: a poll that stops at an item not yet due, or at max_per_frame with
\* items left, leaves the replayer enabled; a poll disables it exactly when
\* the cursor has reached the end of the items.
C19_AutoStop == [][C19_Step]_vars

\* a poll has stopped short of max_per_frame at an item not yet due, and
\* the replayer is still enabled
C19_Witness ==
    /\ mode = "REPLAY"
    /\ pc = "ingest"
    /\ rp_enabled
    /\ Len(msgs) < max_per_frame
    /\ rp_index < Len(rp_items)
    /\ rp_items[rp_index + 1].t > now - The(rp_start)

\* every loaded item has gone through the ingest loop, in file order, and
\* the replayer has disabled itself
ReplayDone ==
    /\ ~rp_enabled
    /\ rp_index = Len(rp_items)
    /\ [i \in 1..Len(SinceClear) |-> SinceClear[i].v]
          = [i \in 1..Len(rp_items) |-> PyDict(rp_items[i].msg)]

\* C20 (as claimed): after a successful load and start(), with the loop
\* polling and the clock advancing, every loaded item is eventually released
\* into the ingest path, once and in file order, and the replayer then
\* disables itself.
C20_AllReleased == (mode = "REPLAY") ~> ReplayDone

\* what stop, and start, do to a Replayer
C21_Step ==
    /\ CallStop => /\ ~rp_enabled'
                   /\ rp_index' = rp_index
                   /\ rp_items' = rp_items
    /\ (CallStart /\ rp_items # <<>>) => /\ rp_enabled'
                                         /\ rp_start' = Some(clock)
                                         /\ rp_index' = 0
                                         /\ rp_items' = rp_items
    /\ (CallStart /\ rp_items = <<>>) => UNCHANGED rpvars

\* C21: stop disables the replayer and leaves the cursor and the items as
\* they are; start with items loaded enables it, sets the start reference to
\* the clock and puts the cursor on the first item, wherever a stop left it;
\* start with no items changes nothing.
C21_StopStart == [][C21_Step]_vars

\* a replay was stopped after its first poll and has been started again
C21_Witness ==
    /\ rp_calls = <<"load", "start", "poll", "stop", "start">>
    /\ Len(rp_items) = MaxLines
    /\ rp_items[2].t = 0
    /\ rp_enabled
    /\ rp_index = 0
    /\ rp_start = Some(clock)

\* a line load keeps: a JSON object whose _rx_time, if it has one, float()
\* accepts
Parseable(line) ==
    /\ line.json = "object"
    /\ Has(line.obj, "_rx_time") => line.obj["_rx_time"][1] \in {"num", "numstr"}
RxTime(line) == IF Has(line.obj, "_rx_time") THEN line.obj["_rx_time"][2] ELSE 0
Kept == SelectSeq(capture.lines, Parseable)

\* C22 (as claimed): after a successful load the items are the parseable
\* lines in file order, the first item's offset is 0, every item's offset is
\* its record's _rx_time minus the first parsed record's, and no item's
\* message holds an _rx_time.
C22_LoadedItems ==
    [][(CallLoad /\ rp_items' # <<>>) =>
         /\ Len(rp_items') = Len(Kept)
         /\ rp_items'[1].t = 0
         /\ \A i \in 1..Len(Kept) :
              /\ rp_items'[i].t = FloatSub(RxTime(Kept[i]), RxTime(Kept[1]))
              /\ ~Has(rp_items'[i].msg, "_rx_time")
              /\ rp_items'[i].msg = [k \in DOMAIN Kept[i].obj \ {"_rx_time"} |-> Kept[i].obj[k]]]_vars

\* the attempt of this step is for an entity that has had a drop burst
BurstAttempt == SendStep /\ s_burst[SendingFor] # None
Burst == The(s_burst[SendingFor])
Dropped == Suppressed /\ s_dropped' = s_dropped + 1 /\ s_jammed' = s_jammed

\* C23 (as claimed): after a drop burst of N the next N attempts for the
\* entity are dropped, and the attempt after them is sent.
C23_ExactlyN ==
    [][BurstAttempt => /\ Burst.seen < Burst.count => Dropped
                       /\ Burst.seen = Burst.count => Sent]_vars

C23_Step ==
    BurstAttempt =>
        /\ Burst.seen < Burst.count => Dropped
        /\ Burst.seen = Burst.count =>
              /\ s_dropped' = s_dropped
              /\ Sent \/ (s_clock < s_faults[SendingFor].jam_until /\ s_jammed' = s_jammed + 1)

\* C23 (amended): after a drop burst of N is triggered for an entity, its
\* next N send attempts are dropped and counted as dropped, whatever time
\* passes between them; the attempt after them is not dropped, and it is
\* sent unless a jam triggered after the burst ran out suppresses it.
C23_NextN == [][C23_Step]_vars

\* the attempt after a burst has been sent, at the last reading of the clock
C23_Witness ==
    /\ s_burst[EntityOrder[Len(EntityOrder)]] # None
    /\ LET b == The(s_burst[EntityOrder[Len(EntityOrder)]]) IN
       /\ b.seen = b.count + 1
       /\ s_dropped = b.count
    /\ s_jammed = 0
    /\ s_pc = "idle"
    /\ s_wire # None
    /\ The(s_wire).obj.entity_id = Num(EntityOrder[Len(EntityOrder)])
    /\ s_clock = MaxSenderClock

\* the step is a poll_messages of main's ingest
LivePoll == pc = "events" /\ pc' = "ingest" /\ mode = "LIVE"
WellFormed(d) == d.json # "invalid"

C24_Step ==
    LivePoll =>
        LET k == Len(sockq) - Len(sockq')
            good == SelectSeq(SubSeq(sockq, 1, k), WellFormed)
        IN  /\ k >= 0 /\ k <= max_per_frame
            /\ k < max_per_frame => sockq' = <<>>
            /\ sockq' = SubSeq(sockq, k + 1, Len(sockq))
            /\ Len(msgs') = Len(good)
            /\ \A i \in 1..Len(good) :
                  msgs'[i] = [isdict |-> good[i].json = "object", f |-> good[i].obj]

\* C24: a poll_messages call takes at most max_per_frame datagrams off the
\* socket, all there are when there are fewer, and returns the well-formed
\* ones among them in arrival order; the datagrams beyond the bound stay
\* queued, in order.
C24_BoundedPoll == [][C24_Step]_vars

\* the first poll found one more datagram than max_per_frame: one of those
\* it took was malformed, and one datagram is left queued
C24_Witness ==
    /\ mode = "LIVE"
    /\ pc = "ingest"
    /\ log = <<>>
    /\ arrived = max_per_frame + 1
    /\ Len(sockq) = 1
    /\ Len(msgs) = max_per_frame - 1

\* the fault conditions of f that hold at clock reading t
ActiveConditions(f, t) ==
    {c \in {"jam", "drop_burst", "heading_noise"} :
        \/ c = "jam" /\ t < f.jam_until
        \/ c = "drop_burst" /\ f.drop_burst_remaining > 0
        \/ c = "heading_noise" /\ t < f.heading_noise_until}

\* C25: at every moment at most one of an entity's three fault conditions
\* holds, and its drop_burst_remaining is within 0..20.
C25_OneFault ==
    \A e \in SenderEntities :
        /\ Cardinality(ActiveConditions(s_faults[e], s_clock)) <= 1
        /\ s_faults[e].drop_burst_remaining >= 0
        /\ s_faults[e].drop_burst_remaining <= 20

\* the trigger of the second tick has picked the entity whose burst of 20
\* the first tick began
C25_Witness ==
    /\ s_pc = "send"
    /\ s_i = 1
    /\ s_seq = 2
    /\ s_picked = Some(EntityOrder[1])
    /\ s_burst[EntityOrder[1]] = Some([count |-> 20, seen |-> 1])
    /\ s_faults[EntityOrder[1]].drop_burst_remaining = 19
    /\ ActiveConditions(s_faults[EntityOrder[1]], s_clock) = {"drop_burst"}

\* between two send_all calls
C26_Counters ==
    s_pc = "idle" =>
        /\ s_attempted = s_sent + s_jammed + s_dropped
        /\ s_attempted = s_seq * Len(EntityOrder)
        /\ ~s_faults_enabled => (s_attempted = s_sent /\ s_jammed = 0 /\ s_dropped = 0)

C26_Step ==
    /\ (SendStep /\ ~s_faults_enabled) => (Sent /\ s_wire' = Some(Dumps(TrueMsg)))
    /\ (s_pc = "idle" /\ s_pc' = "send") => s_seq' = s_seq + 1
    /\ s_seq' # s_seq => (s_pc = "idle" /\ s_pc' = "send")

\* C26: after every completed send_all the attempted counter is the sum of
\* the sent, jammed and dropped counters; with faults disabled every
\* attempted message is sent as built and attempted = sent; seq goes up by
\* one per send_all, at its start, and by nothing else, also in a tick that
\* sends nothing.
C26_Accounting == []C26_Counters /\ [][C26_Step]_vars

\* the third send_all has sent nothing: one entity is jammed, the other in
\* a drop burst
C26_Witness ==
    /\ s_pc = "idle"
    /\ s_faults_enabled
    /\ s_seq = 3
    /\ s_attempted = 3 * Len(EntityOrder)
    /\ s_sent = 1
    /\ s_jammed = 3
    /\ s_dropped = 2

\* the step belongs to the ingest of a loop iteration
IngestStep == (pc = "events" /\ pc' = "ingest") \/ pc = "ingest"
\* a datagram has arrived
Arrival == Len(sockq') = Len(sockq) + 1 /\ SubSeq(sockq', 1, Len(sockq)) = sockq
\* the operator has started a recording
RecordingStarted == ~rec_enabled /\ rec_enabled' /\ capture' = File(<<>>)

\* C27 (as claimed): no step of the receiver in REPLAY mode changes the
\* capture file or takes a datagram off the socket.
C27_TickFrame ==
    [][mode = "REPLAY" => (capture' = capture /\ (sockq' = sockq \/ Arrival))]_vars

C27_Step ==
    mode = "REPLAY" =>
        /\ sockq' = sockq \/ Arrival
        /\ capture' = capture \/ RecordingStarted
        /\ IngestStep => (capture' = capture /\ recorded' = recorded /\ sockq' = sockq)

\* C27 (amended): in REPLAY mode the ingest of a tick writes no capture
\* record, recorder enabled or not, and takes no datagram off the socket;
\* the queue only grows by arrivals, and the capture file changes only when
\* the operator starts a recording with R, which empties it.
C27_ReplayFrame == [][C27_Step]_vars

\* a replayed message has gone through ingest with the recorder enabled and
\* a live datagram queued
C27_Witness ==
    /\ mode = "REPLAY"
    /\ rec_enabled
    /\ sockq # <<>>
    /\ Len(log) > clear_mark
    /\ ~log[Len(log)].live
    /\ ~log[Len(log)].wrote

\* the Replayer's fields, and the mode main keeps next to them
C28_Replayer ==
    /\ 0 <= rp_index
    /\ rp_index <= Len(rp_items)
    /\ rp_enabled => (rp_items # <<>> /\ rp_start # None)
    /\ rp_enabled => mode = "REPLAY"

\* the mode leaves REPLAY by K_p alone
C28_Step == (mode = "REPLAY" /\ mode' # "REPLAY") => (KeyP /\ mode' = "LIVE")

\* C28: the cursor is always within 0..len(items); an enabled replayer has
\* items and a start reference; the replayer is enabled only in REPLAY mode;
\* and the mode stays REPLAY, also when the replay has finished, until the
\* operator presses P.
C28_ReplayerInvariants == []C28_Replayer /\ [][C28_Step]_vars

\* the replay has finished and the loop has gone round again at the last
\* reading of the clock: the mode is still REPLAY
C28_Witness ==
    /\ mode = "REPLAY"
    /\ ~rp_enabled
    /\ rp_items # <<>>
    /\ rp_index = Len(rp_items)
    /\ pc = "ingest"
    /\ msgs = <<>>
    /\ now = MaxClock
    /\ now > The(rp_start)

====
